---------------------------- MODULE Spec2Model ----------------------------
(***************************************************************************)
(* Model of src/AutoencoderLinearDecoder.py: the two proximal operators    *)
(* (ProxOperL1, ProxOperGroupL2), the operator registry                    *)
(* (get_prox_operators) and the proximal-gradient loop                     *)
(* (train_autoencoder).                                                    *)
(*                                                                         *)
(* Tensor entries are IEEE floats in the program.  Here an entry is an     *)
(* exact rational n/d in lowest terms, or one of the three non-finite      *)
(* values: +inf (1/0), -inf (-1/0), NaN (0/0).  Arithmetic follows IEEE    *)
(* for the non-finite cases (x/0, 0*inf, inf-inf, comparisons with NaN);   *)
(* rounding is not modelled.                                               *)
(***************************************************************************)
EXTENDS Integers, Sequences, FiniteSets, TLC

VARIABLES
    \* ---- train_autoencoder ----
    pc,             \* position in train_autoencoder
    err,            \* exception that ended the call ("none" while running)
    weight_dict,    \* autoencoder.decoder.weight_dict: block name -> matrix
    I,              \* adata.varm['I'], the binary annotation matrix
    lambda1, lambda2, lambda3,   \* optional coefficients (None or a value)
    num_epochs, n_obs, batch_size,
    prox_ops,       \* keys of the dict returned by get_prox_operators
    n_inact_genes,  \* line 175
    epoch, step,    \* loop counters of lines 197 and 200
    todo,           \* blocks the loop of line 211 has still to visit
    trace,          \* events of the current batch step, in order
    n_deact_terms,  \* last value printed by line 227
    share,          \* last value printed by line 230
    \* ---- a single operator called directly ----
    hOp,            \* the operator under call and its construction arguments
    hIn,            \* the matrix as it was before the first call
    hW,             \* the caller's tensor (mutated when inplace)
    hHist           \* the values returned so far, in call order

vars == <<pc, err, weight_dict, I, lambda1, lambda2, lambda3, num_epochs, n_obs,
          batch_size, prox_ops, n_inact_genes, epoch, step, todo, trace,
          n_deact_terms, share, hOp, hIn, hW, hHist>>

trainVars == <<pc, err, weight_dict, I, lambda1, lambda2, lambda3, num_epochs,
               n_obs, batch_size, prox_ops, n_inact_genes, epoch, step, todo,
               trace, n_deact_terms, share>>

harnessVars == <<hOp, hIn, hW, hHist>>

(***************************************************************************)
(* Bounds of the model.                                                    *)
(***************************************************************************)
\* entries of the matrices handed to ProxOperL1 range over the multiples of
\* 1/2 in -MaxVal/2..MaxVal/2
MaxVal == 2
\* entries of the matrices handed to ProxOperGroupL2 range over
\* -MaxEntry..MaxEntry, those handed to the registry over 0..MaxEntry
\* (4 admits the column (3,4) of norm 5)
MaxEntry == 4
\* num_epochs ranges over 0..MaxEpochs
MaxEpochs == 1
\* adata.n_obs ranges over 0..MaxObs
MaxObs == 2
\* batch_size ranges over 1..MaxBatch
MaxBatch == 2

\* n_vars: the genes (rows of every weight block and of I)
Genes == {1, 2}

(***************************************************************************)
(* Python None and optional arguments.                                     *)
(***************************************************************************)
None == {}
Some(x) == {x}
Val(o) == CHOOSE x \in o : TRUE

TERMS_KEYS == <<"annotated", "sparse", "dense">>

(***************************************************************************)
(* Float arithmetic.                                                       *)
(***************************************************************************)
RECURSIVE GCD(_, _)
GCD(a, b) == IF b = 0 THEN a ELSE GCD(b, a % b)

IAbs(x) == IF x < 0 THEN -x ELSE x
ISign(x) == IF x > 0 THEN 1 ELSE IF x < 0 THEN -1 ELSE 0

\* the float n/d
Frac(n, d) ==
    IF d = 0 THEN [n |-> ISign(n), d |-> 0]
    ELSE LET s == ISign(d)
             g == GCD(IAbs(n), IAbs(d))
         IN  [n |-> (s * n) \div g, d |-> IAbs(d) \div g]

Num(k) == [n |-> k, d |-> 1]
Zero == Num(0)
One == Num(1)
PosInf == [n |-> 1, d |-> 0]
NegInf == [n |-> -1, d |-> 0]
NaN == [n |-> 0, d |-> 0]

IsNaN(a) == a.d = 0 /\ a.n = 0
IsInf(a) == a.d = 0 /\ a.n # 0
IsFinite(a) == a.d # 0

RNeg(a) == [n |-> -a.n, d |-> a.d]

RAbs(a) == [n |-> IAbs(a.n), d |-> a.d]

RAdd(a, b) ==
    IF IsNaN(a) \/ IsNaN(b) THEN NaN
    ELSE IF IsInf(a) /\ IsInf(b) THEN (IF a.n = b.n THEN a ELSE NaN)
    ELSE IF IsInf(a) THEN a
    ELSE IF IsInf(b) THEN b
    ELSE Frac(a.n * b.d + b.n * a.d, a.d * b.d)

RSub(a, b) == RAdd(a, RNeg(b))

RMul(a, b) ==
    IF IsNaN(a) \/ IsNaN(b) THEN NaN
    ELSE IF IsInf(a) \/ IsInf(b)
         THEN (IF a.n = 0 \/ b.n = 0 THEN NaN
               ELSE [n |-> ISign(a.n) * ISign(b.n), d |-> 0])
    ELSE Frac(a.n * b.n, a.d * b.d)

\* a / b; the program only divides by non-negative zeros
RDiv(a, b) ==
    IF IsNaN(a) \/ IsNaN(b) THEN NaN
    ELSE IF IsInf(b) THEN (IF IsInf(a) THEN NaN ELSE Zero)
    ELSE IF b.n = 0 THEN (IF a.n = 0 THEN NaN ELSE [n |-> ISign(a.n), d |-> 0])
    ELSE IF IsInf(a) THEN [n |-> ISign(a.n) * ISign(b.n), d |-> 0]
    ELSE Frac(a.n * b.d, a.d * b.n)

\* a > b; every comparison with NaN is False
RGt(a, b) ==
    IF IsNaN(a) \/ IsNaN(b) THEN FALSE
    ELSE IF IsInf(a) THEN (a.n = 1 /\ b # PosInf)
    ELSE IF IsInf(b) THEN b.n = -1
    ELSE a.n * b.d > b.n * a.d

RGe(a, b) == ~IsNaN(a) /\ ~IsNaN(b) /\ (a = b \/ RGt(a, b))

RLe(a, b) == RGe(b, a)

\* bool.float()
FloatOf(b) == IF b THEN One ELSE Zero

IsSquare(k) == \E r \in 0..k : r * r = k
ISqrt(k) == CHOOSE r \in 0..k : r * r = k

\* the norms the model can represent: those that are rational
HasRoot(a) == ~IsFinite(a) \/ (a.n >= 0 /\ IsSquare(a.n) /\ IsSquare(a.d))

RSqrt(a) ==
    IF IsNaN(a) \/ a = NegInf THEN NaN
    ELSE IF a = PosInf THEN PosInf
    ELSE [n |-> ISqrt(a.n), d |-> ISqrt(a.d)]

(***************************************************************************)
(* Matrices: functions from Rows \X Cols to floats.                        *)
(***************************************************************************)
Matrix(rows, cols, vals) == [rows \X cols -> vals]
RowsOf(W) == {p[1] : p \in DOMAIN W}
ColsOf(W) == {p[2] : p \in DOMAIN W}

RECURSIVE SumOver(_, _)
\* sum of f over the index set S
SumOver(f, S) ==
    IF S = {} THEN Zero
    ELSE LET x == CHOOSE y \in S : TRUE
         IN  RAdd(f[x], SumOver(f, S \ {x}))

\* squared L2 norm of column c
ColSq(W, c) == SumOver([i \in RowsOf(W) |-> RMul(W[<<i, c>>], W[<<i, c>>])], RowsOf(W))

ExactNorms(W) == \A c \in ColsOf(W) : HasRoot(ColSq(W, c))

(***************************************************************************)
(* class ProxOperL1                                                        *)
(***************************************************************************)
\* faulty variant: the mask is kept as given, self._I = I.bool()
ProxOperL1_init_unflipped(alpha, Iopt, inplace) ==
    [kind |-> "L1",
     _I |-> IF Iopt # None
            THEN Some([p \in DOMAIN Val(Iopt) |-> Val(Iopt)[p] # 0])
            ELSE None,
     _alpha |-> alpha,
     _inplace |-> inplace]

\* __init__: self._I = ~I.bool() if I is not None else None
ProxOperL1_init(alpha, Iopt, inplace) ==
    [kind |-> "L1",
     _I |-> IF Iopt # None
            THEN Some([p \in DOMAIN Val(Iopt) |-> ~(Val(Iopt)[p] # 0)])
            ELSE None,
     _alpha |-> alpha,
     _inplace |-> inplace]

\* faulty variant: W > self._alpha
W_geq_alpha_strict(self, W) ==
    [p \in DOMAIN W |->
        RGt(W[p], self._alpha) /\ (self._I # None => Val(self._I)[p])]

\* W >= self._alpha, then &= self._I
W_geq_alpha(self, W) ==
    [p \in DOMAIN W |->
        RGe(W[p], self._alpha) /\ (self._I # None => Val(self._I)[p])]

\* W <= -self._alpha, then &= self._I
W_leq_neg_alpha(self, W) ==
    [p \in DOMAIN W |->
        RLe(W[p], RNeg(self._alpha)) /\ (self._I # None => Val(self._I)[p])]

\* ~W_geq_alpha & ~W_leq_neg_alpha (of the unmasked comparisons), then &= self._I
W_cond_joint(self, W) ==
    [p \in DOMAIN W |->
        (~RGe(W[p], self._alpha) /\ ~RLe(W[p], RNeg(self._alpha)))
        /\ (self._I # None => Val(self._I)[p])]

\* __call__: the three in-place updates of lines 74-76, in order
ProxOperL1_call(self, W) ==
    LET geq == W_geq_alpha(self, W)
        leq == W_leq_neg_alpha(self, W)
        joint == W_cond_joint(self, W)
        W1 == [p \in DOMAIN W |-> RSub(W[p], RMul(FloatOf(geq[p]), self._alpha))]
        W2 == [p \in DOMAIN W |-> RAdd(W1[p], RMul(FloatOf(leq[p]), self._alpha))]
    IN  [p \in DOMAIN W |-> RSub(W2[p], RMul(FloatOf(joint[p]), W2[p]))]


(***************************************************************************)
(* class ProxOperGroupL2                                                   *)
(***************************************************************************)
\* __init__: alpha itself, or (omega*alpha).view(-1), one entry per group
ProxOperGroupL2_init(alpha, omega, inplace) ==
    [kind |-> "GroupL2",
     _scalar |-> (omega = None),
     _group_coeff |-> IF omega = None
                      THEN alpha
                      ELSE [c \in DOMAIN Val(omega) |-> RMul(Val(omega)[c], alpha)],
     _inplace |-> inplace]

\* self._group_coeff broadcast against a vector indexed by column
GroupCoeff(self, c) ==
    IF self._scalar THEN self._group_coeff ELSE self._group_coeff[c]

\* W.norm(p=2, dim=0)
norm_vect(W) == [c \in ColsOf(W) |-> RSqrt(ColSq(W, c))]

\* norm_vect > self._group_coeff
norm_g_gr_vect(self, W) ==
    [c \in ColsOf(W) |-> RGt(norm_vect(W)[c], GroupCoeff(self, c))]

\* norm_vect/self._group_coeff, then += (~(scaled_norm_vector>0)).float()
scaled_norm_vector(self, W) ==
    LET s == [c \in ColsOf(W) |-> RDiv(norm_vect(W)[c], GroupCoeff(self, c))]
    IN  [c \in ColsOf(W) |-> RAdd(s[c], FloatOf(~RGt(s[c], Zero)))]

\* __call__: W -= W/scaled_norm_vector; W *= norm_g_gr_vect.float()
ProxOperGroupL2_call(self, W) ==
    LET gr == norm_g_gr_vect(self, W)
        sc == scaled_norm_vector(self, W)
        W1 == [p \in DOMAIN W |-> RSub(W[p], RDiv(W[p], sc[p[2]]))]
    IN  [p \in DOMAIN W |-> RMul(W1[p], FloatOf(gr[p[2]]))]

(***************************************************************************)
(* get_prox_operators                                                      *)
(***************************************************************************)
\* faulty variant: the group step is dropped, p_gr = lambda W: W whatever lambda3
p_gr_identity(l3, W) == W

\* p_gr: ProxOperGroupL2(lambda3), or lambda W: W
p_gr(l3, W) ==
    IF l3 # None
    THEN ProxOperGroupL2_call(ProxOperGroupL2_init(Val(l3), None, TRUE), W)
    ELSE W

\* p_l1_annot = ProxOperL1(lambda1, I)
p_l1_annot(Imat, l1, W) == ProxOperL1_call(ProxOperL1_init(Val(l1), Some(Imat), TRUE), W)

\* p_l1_sparse = ProxOperL1(lambda2)
p_l1_sparse(l2, W) == ProxOperL1_call(ProxOperL1_init(Val(l2), None, TRUE), W)

\* the keys of ops_dct
ops_keys(l1, l2, l3) ==
    (IF l1 # None THEN {TERMS_KEYS[1]} ELSE {})
    \cup (IF l2 # None THEN {TERMS_KEYS[2]} ELSE {})
    \cup {TERMS_KEYS[3]}

\* ops_dct[TERMS_KEYS[0]] = lambda W: p_gr(p_l1_annot(W))
ops_annotated(Imat, l1, l3, W) == p_gr(l3, p_l1_annot(Imat, l1, W))

\* faulty variant: the two steps composed in the other order
ops_sparse_group_first(l2, l3, W) ==
    ProxOperL1_call(ProxOperL1_init(Val(l2), None, TRUE),
                    IF l3 # None
                    THEN ProxOperGroupL2_call(ProxOperGroupL2_init(Val(l3), None, TRUE), W)
                    ELSE W)

\* ops_dct[TERMS_KEYS[1]] = lambda W: p_gr(p_l1_sparse(W))
ops_sparse(l2, l3, W) == p_gr(l3, p_l1_sparse(l2, W))

\* ops_dct[TERMS_KEYS[2]] = lambda W: p_gr(W)
ops_dense(l3, W) == p_gr(l3, W)

\* the returned dict: for each key the closure's captured coefficients
get_prox_operators(Imat, l1, l2, l3) ==
    [k \in ops_keys(l1, l2, l3) |-> [key |-> k, I |-> Imat, l1 |-> l1, l2 |-> l2, l3 |-> l3]]

\* ops_dct[k](W)
ApplyOp(op, W) ==
    IF op.key = TERMS_KEYS[1] THEN ops_annotated(op.I, op.l1, op.l3, W)
    ELSE IF op.key = TERMS_KEYS[2] THEN ops_sparse(op.l2, op.l3, W)
    ELSE ops_dense(op.l3, W)


(***************************************************************************)
(* The operators called directly on a matrix: one specification per        *)
(* operator.  The matrix and the construction arguments are drawn by Init; *)
(* a call applies the operator to the tensor returned by the previous call *)
(* (to the caller's tensor at first).  train_autoencoder does not run.     *)
(***************************************************************************)
HCols == {1, 2}

TrainIdle ==
    /\ pc = "idle" /\ err = "none"
    /\ weight_dict = <<>> /\ I = <<>>
    /\ lambda1 = None /\ lambda2 = None /\ lambda3 = None
    /\ num_epochs = 0 /\ n_obs = 0 /\ batch_size = 1
    /\ prox_ops = <<>> /\ n_inact_genes = 0
    /\ epoch = 0 /\ step = 0 /\ todo = <<>> /\ trace = <<>>
    /\ n_deact_terms = None /\ share = None

IntVals(m) == {Num(k) : k \in (-m)..m}

NatVals(m) == {Num(k) : k \in 0..m}

\* the multiples of 1/2 between -m/2 and m/2
HalfVals(m) == {Frac(k, 2) : k \in (-m)..m}

\* binary matrices of the shape of the called matrix
Masks01 == Matrix(Genes, HCols, {0, 1})

\* the tensor the next call receives
HInput == IF hHist = <<>> THEN hW ELSE hHist[Len(hHist)]

\* if not self._inplace: W = W.clone()
HAfter(inplace, ret) == IF inplace THEN ret ELSE hW

\* ---- ProxOperL1 ----
L1Alphas == {Frac(1, 2), Num(1)}

InitL1 ==
    /\ TrainIdle
    /\ hOp \in [kind : {"L1"}, alpha : L1Alphas,
                I : {None} \cup {Some(m) : m \in Masks01}, inplace : BOOLEAN]
    /\ hIn \in Matrix(Genes, HCols, HalfVals(MaxVal))
    /\ hW = hIn
    /\ hHist = <<>>

L1Call ==
    /\ hOp.kind = "L1"
    /\ Len(hHist) < 2
    /\ LET self == ProxOperL1_init(hOp.alpha, hOp.I, hOp.inplace)
           ret == ProxOperL1_call(self, HInput)
       IN  /\ hHist' = Append(hHist, ret)
           /\ hW' = HAfter(self._inplace, ret)
    /\ UNCHANGED <<hOp, hIn, trainVars>>

SpecL1 == InitL1 /\ [][L1Call]_vars

\* ---- ProxOperGroupL2 ----
GroupAlphas == {Num(0), Num(1), Num(5)}
Omegas == [HCols -> {Num(1), Num(2)}]

InitGroupL2 ==
    /\ TrainIdle
    /\ hOp \in [kind : {"GroupL2"}, alpha : GroupAlphas,
                omega : {None} \cup {Some(o) : o \in Omegas}, inplace : BOOLEAN]
    /\ hIn \in Matrix(Genes, HCols, IntVals(MaxEntry))
    /\ ExactNorms(hIn)
    /\ hW = hIn
    /\ hHist = <<>>

GroupL2Call ==
    /\ hOp.kind = "GroupL2"
    /\ Len(hHist) < 2
    /\ LET self == ProxOperGroupL2_init(hOp.alpha, hOp.omega, hOp.inplace)
           ret == ProxOperGroupL2_call(self, HInput)
       IN  /\ hHist' = Append(hHist, ret)
           /\ hW' = HAfter(self._inplace, ret)
    /\ UNCHANGED <<hOp, hIn, trainVars>>

SpecGroupL2 == InitGroupL2 /\ [][GroupL2Call]_vars


\* ---- get_prox_operators ----
RegLambdas == {None, Some(Num(3))}
RegLambdas3 == {None, Some(Num(0)), Some(Num(1))}

\* annotation matrices: no link, every link, one link
AnnotationMasks ==
    {[p \in Genes \X HCols |-> 0],
     [p \in Genes \X HCols |-> 1],
     [p \in Genes \X HCols |-> IF p = <<1, 1>> THEN 1 ELSE 0]}

\* the tensor the closure under hOp.key hands to p_gr
RegL1Output(op, W) ==
    IF op.key = TERMS_KEYS[1] /\ op.lambda1 # None THEN p_l1_annot(op.I, op.lambda1, W)
    ELSE IF op.key = TERMS_KEYS[2] /\ op.lambda2 # None THEN p_l1_sparse(op.lambda2, W)
    ELSE W

InitRegistry ==
    /\ TrainIdle
    /\ hOp \in [kind : {"registry"}, I : AnnotationMasks,
                lambda1 : RegLambdas, lambda2 : RegLambdas, lambda3 : RegLambdas3,
                key : {TERMS_KEYS[i] : i \in 1..3}, ops : {None}]
    /\ hIn \in Matrix(Genes, HCols, NatVals(MaxEntry))
    /\ ExactNorms(hIn)
    /\ ExactNorms(RegL1Output(hOp, hIn))
    /\ hW = hIn
    /\ hHist = <<>>

\* ops_dct = get_prox_operators(I, lambda1, lambda2, lambda3)
RegistryBuild ==
    /\ hOp.kind = "registry"
    /\ hOp.ops = None
    /\ hOp' = [hOp EXCEPT !.ops =
                 Some(get_prox_operators(hOp.I, hOp.lambda1, hOp.lambda2, hOp.lambda3))]
    /\ UNCHANGED <<hIn, hW, hHist, trainVars>>

\* ops_dct[key](W), for a key the dict holds
RegistryCall ==
    /\ hOp.kind = "registry"
    /\ hOp.ops # None
    /\ hOp.key \in DOMAIN Val(hOp.ops)
    /\ hHist = <<>>
    /\ LET ret == ApplyOp(Val(hOp.ops)[hOp.key], hW)
       IN  /\ hHist' = Append(hHist, ret)
           /\ hW' = ret
    /\ UNCHANGED <<hOp, hIn, trainVars>>

NextRegistry == RegistryBuild \/ RegistryCall

SpecRegistry == InitRegistry /\ [][NextRegistry]_vars

(***************************************************************************)
(* class CompositeLinearDecoder                                            *)
(***************************************************************************)
\* faulty variant: the blocks visited in the reverse order
term_keys_reversed(wd) == SelectSeq(<<"dense", "sparse", "annotated">>, LAMBDA k : k \in DOMAIN wd)

\* weight_dict.keys(): the blocks present, in the order __init__ inserted
\* them (for i, k in enumerate(TERMS_KEYS))
term_keys(wd) == SelectSeq(TERMS_KEYS, LAMBDA k : k \in DOMAIN wd)

RECURSIVE CountOver(_, _)
\* number of x in S with f[x]: (bool tensor).float().sum()
CountOver(f, S) ==
    IF S = {} THEN 0
    ELSE LET x == CHOOSE y \in S : TRUE
         IN  (IF f[x] THEN 1 ELSE 0) + CountOver(f, S \ {x})

\* (~(v.data.norm(p=2, dim=0)>0)).float().sum() of one block
InactiveColumns(W) ==
    CountOver([c \in ColsOf(W) |-> ~RGt(norm_vect(W)[c], Zero)], ColsOf(W))

RECURSIVE SumBlocks(_, _)
SumBlocks(wd, ks) ==
    IF ks = <<>> THEN 0
    ELSE InactiveColumns(wd[Head(ks)]) + SumBlocks(wd, Tail(ks))

\* n_inactive_terms()
n_inactive_terms(wd) == SumBlocks(wd, term_keys(wd))

(***************************************************************************)
(* train_autoencoder                                                       *)
(***************************************************************************)
\* (1-adata.varm['I']).sum()
InactCount(Imat) == CountOver([p \in DOMAIN Imat |-> 1 - Imat[p] = 1], DOMAIN Imat)

\* (~(weight_dict['annotated'].data.abs()>0)).float().sum()
n_deact_genes(W) == CountOver([p \in DOMAIN W |-> ~RGt(RAbs(W[p]), Zero)], DOMAIN W)

\* n_deact_genes/n_inact_genes (numpy: a zero divisor gives inf or nan)
DeactShare(W, n_inact) == RDiv(Num(n_deact_genes(W)), Num(n_inact))

\* faulty variant: the keys are looked up in TERMS_KEYS, which holds them all
MissingKeys_in_terms_keys(wd, ops) ==
    {k \in DOMAIN wd : k \notin {TERMS_KEYS[i] : i \in 1..3}}

\* for k in term_keys: if k not in prox_ops
MissingKeys(wd, ops) == {k \in DOMAIN wd : k \notin DOMAIN ops}

\* int(adata.n_obs/batch_size)
StepsPerEpoch(n, b) == n \div b

\* columns of each block
BlockCols(k) == IF k = "annotated" THEN HCols ELSE {1}

\* values an entry takes at initialisation and after an optimizer update
WeightVals == {Num(0), Num(2)}

\* columns with at most one non-zero entry: their norms stay rational
\* through every operator
AxisColumns(W) ==
    \A c \in ColsOf(W) : Cardinality({i \in RowsOf(W) : W[<<i, c>>] # Zero}) <= 1

\* the sparse and the dense block move in their first row only
FirstRowOnly(W) == \A p \in DOMAIN W : p[1] # 1 => W[p] = Zero

Candidates(k) ==
    {W \in Matrix(Genes, BlockCols(k), WeightVals) :
        AxisColumns(W) /\ (k # "annotated" => FirstRowOnly(W))}

ActiveSets == (SUBSET {"annotated", "sparse", "dense"}) \ {{}}

DictsOn(S) ==
    {f \in [S -> UNION {Candidates(k) : k \in S}] : \A k \in S : f[k] \in Candidates(k)}

\* torch.randn(n_vars, sizes[i]) / N: a block with no zero entry (columns
\* of norm 5)
InitialBlock(k) ==
    [p \in Genes \X BlockCols(k) |-> IF p[1] = p[2] THEN Num(3) ELSE Num(4)]

InitialDict(S) == [k \in S |-> InitialBlock(k)]

\* an update keeps a NaN entry NaN and moves every other entry freely
Updated(W, C) == [p \in DOMAIN W |-> IF IsNaN(W[p]) THEN NaN ELSE C[p]]

CoeffChoices == {None, Some(Num(1))}
Coeff3Choices == {None, Some(Num(0)), Some(Num(1))}

Init ==
    /\ pc = "start" /\ err = "none"
    /\ weight_dict \in {InitialDict(S) : S \in ActiveSets}
    /\ I \in AnnotationMasks
    /\ lambda1 \in CoeffChoices /\ lambda2 \in CoeffChoices /\ lambda3 \in Coeff3Choices
    /\ num_epochs \in 0..MaxEpochs
    /\ n_obs \in 0..MaxObs
    /\ batch_size \in 1..MaxBatch
    /\ prox_ops = <<>> /\ n_inact_genes = 0
    /\ epoch = 0 /\ step = 0 /\ todo = <<>> /\ trace = <<>>
    /\ n_deact_terms = None /\ share = None
    /\ hOp = [kind |-> "none"] /\ hIn = <<>> /\ hW = <<>> /\ hHist = <<>>

\* lines 173-178: optimizer, n_inact_genes, prox_ops
Setup ==
    /\ pc = "start"
    /\ n_inact_genes' = InactCount(I)
    /\ prox_ops' = get_prox_operators(I, lambda1, lambda2, lambda3)
    /\ pc' = "validate"
    /\ UNCHANGED <<err, weight_dict, I, lambda1, lambda2, lambda3, num_epochs, n_obs,
                   batch_size, epoch, step, todo, trace, n_deact_terms, share,
                   harnessVars>>

\* lines 180-183: raise ValueError('Provide regularization coefficient for '+k)
ValidateRaise ==
    /\ pc = "validate"
    /\ MissingKeys(weight_dict, prox_ops) # {}
    /\ pc' = "raised"
    /\ err' = "ValueError"
    /\ UNCHANGED <<weight_dict, I, lambda1, lambda2, lambda3, num_epochs, n_obs,
                   batch_size, prox_ops, n_inact_genes, epoch, step, todo, trace,
                   n_deact_terms, share, harnessVars>>

\* lines 180-195: every key has an operator; t_X, zeros, l2_loss
ValidateOk ==
    /\ pc = "validate"
    /\ MissingKeys(weight_dict, prox_ops) = {}
    /\ pc' = "epoch_loop"
    /\ UNCHANGED <<err, weight_dict, I, lambda1, lambda2, lambda3, num_epochs, n_obs,
                   batch_size, prox_ops, n_inact_genes, epoch, step, todo, trace,
                   n_deact_terms, share, harnessVars>>

\* lines 197-198: for epoch in range(num_epochs): autoencoder.train()
EpochBegin ==
    /\ pc = "epoch_loop"
    /\ epoch < num_epochs
    /\ step' = 0
    /\ pc' = "step_loop"
    /\ UNCHANGED <<err, weight_dict, I, lambda1, lambda2, lambda3, num_epochs, n_obs,
                   batch_size, prox_ops, n_inact_genes, epoch, todo, trace,
                   n_deact_terms, share, harnessVars>>

\* line 197: range(num_epochs) is exhausted; the function returns
Return ==
    /\ pc = "epoch_loop"
    /\ ~(epoch < num_epochs)
    /\ pc' = "done"
    /\ UNCHANGED <<err, weight_dict, I, lambda1, lambda2, lambda3, num_epochs, n_obs,
                   batch_size, prox_ops, n_inact_genes, epoch, step, todo, trace,
                   n_deact_terms, share, harnessVars>>

\* lines 200-201: X = torch.from_numpy(adata.chunk_X(batch_size))
DrawBatch ==
    /\ pc = "step_loop"
    /\ step < StepsPerEpoch(n_obs, batch_size)
    /\ trace' = <<>>
    /\ pc' = "forward"
    /\ UNCHANGED <<err, weight_dict, I, lambda1, lambda2, lambda3, num_epochs, n_obs,
                   batch_size, prox_ops, n_inact_genes, epoch, step, todo,
                   n_deact_terms, share, harnessVars>>

\* lines 203-205: encoded, decoded = autoencoder(X); loss = ...
Forward ==
    /\ pc = "forward"
    /\ trace' = Append(trace, "forward")
    /\ pc' = "zero_grad"
    /\ UNCHANGED <<err, weight_dict, I, lambda1, lambda2, lambda3, num_epochs, n_obs,
                   batch_size, prox_ops, n_inact_genes, epoch, step, todo,
                   n_deact_terms, share, harnessVars>>

\* line 207: optimizer.zero_grad()
ZeroGrad ==
    /\ pc = "zero_grad"
    /\ trace' = Append(trace, "zero_grad")
    /\ pc' = "backward"
    /\ UNCHANGED <<err, weight_dict, I, lambda1, lambda2, lambda3, num_epochs, n_obs,
                   batch_size, prox_ops, n_inact_genes, epoch, step, todo,
                   n_deact_terms, share, harnessVars>>

\* line 208: loss.backward()
Backward ==
    /\ pc = "backward"
    /\ trace' = Append(trace, "backward")
    /\ pc' = "optimizer_step"
    /\ UNCHANGED <<err, weight_dict, I, lambda1, lambda2, lambda3, num_epochs, n_obs,
                   batch_size, prox_ops, n_inact_genes, epoch, step, todo,
                   n_deact_terms, share, harnessVars>>

\* lines 209-211: optimizer.step(); for k in term_keys
OptimizerStep ==
    /\ pc = "optimizer_step"
    /\ \E upd \in DictsOn(DOMAIN weight_dict) :
          weight_dict' = [k \in DOMAIN weight_dict |-> Updated(weight_dict[k], upd[k])]
    /\ trace' = Append(trace, "optimizer_step")
    /\ todo' = term_keys(weight_dict)
    /\ pc' = "prox"
    /\ UNCHANGED <<err, I, lambda1, lambda2, lambda3, num_epochs, n_obs, batch_size,
                   prox_ops, n_inact_genes, epoch, step, n_deact_terms, share,
                   harnessVars>>

\* line 212: prox_ops[k](autoencoder.decoder.weight_dict[k].data)
ProxApply ==
    /\ pc = "prox"
    /\ todo # <<>>
    /\ LET k == Head(todo)
       IN  /\ weight_dict' = [weight_dict EXCEPT ![k] = ApplyOp(prox_ops[k], @)]
           /\ trace' = Append(trace, k)
    /\ todo' = Tail(todo)
    /\ UNCHANGED <<pc, err, I, lambda1, lambda2, lambda3, num_epochs, n_obs, batch_size,
                   prox_ops, n_inact_genes, epoch, step, n_deact_terms, share,
                   harnessVars>>

\* lines 214-215 and back to line 200: the step is over
StepEnd ==
    /\ pc = "prox"
    /\ todo = <<>>
    /\ step' = step + 1
    /\ pc' = "step_loop"
    /\ UNCHANGED <<err, weight_dict, I, lambda1, lambda2, lambda3, num_epochs, n_obs,
                   batch_size, prox_ops, n_inact_genes, epoch, todo, trace,
                   n_deact_terms, share, harnessVars>>

\* lines 217-224: range(...) is exhausted; eval mode, evaluation pass, loss line
Eval ==
    /\ pc = "step_loop"
    /\ ~(step < StepsPerEpoch(n_obs, batch_size))
    /\ pc' = "diag_terms"
    /\ UNCHANGED <<err, weight_dict, I, lambda1, lambda2, lambda3, num_epochs, n_obs,
                   batch_size, prox_ops, n_inact_genes, epoch, step, todo, trace,
                   n_deact_terms, share, harnessVars>>

\* lines 226-227: print('Number of deactivated terms:', n_deact_terms)
DiagTerms ==
    /\ pc = "diag_terms"
    /\ n_deact_terms' = Some(n_inactive_terms(weight_dict))
    /\ pc' = "diag_genes"
    /\ UNCHANGED <<err, weight_dict, I, lambda1, lambda2, lambda3, num_epochs, n_obs,
                   batch_size, prox_ops, n_inact_genes, epoch, step, todo, trace,
                   share, harnessVars>>

\* lines 229-230: the share line; then the next epoch
DiagGenes ==
    /\ pc = "diag_genes"
    /\ TERMS_KEYS[1] \in DOMAIN weight_dict
    /\ share' = Some(DeactShare(weight_dict[TERMS_KEYS[1]], n_inact_genes))
    /\ epoch' = epoch + 1
    /\ pc' = "epoch_loop"
    /\ UNCHANGED <<err, weight_dict, I, lambda1, lambda2, lambda3, num_epochs, n_obs,
                   batch_size, prox_ops, n_inact_genes, step, todo, trace,
                   n_deact_terms, harnessVars>>

\* line 229: weight_dict[TERMS_KEYS[0]] of a decoder without that block
DiagGenesRaise ==
    /\ pc = "diag_genes"
    /\ TERMS_KEYS[1] \notin DOMAIN weight_dict
    /\ pc' = "raised"
    /\ err' = "KeyError"
    /\ UNCHANGED <<weight_dict, I, lambda1, lambda2, lambda3, num_epochs, n_obs,
                   batch_size, prox_ops, n_inact_genes, epoch, step, todo, trace,
                   n_deact_terms, share, harnessVars>>

Next ==
    \/ Setup
    \/ ValidateRaise
    \/ ValidateOk
    \/ EpochBegin
    \/ Return
    \/ DrawBatch
    \/ Forward
    \/ ZeroGrad
    \/ Backward
    \/ OptimizerStep
    \/ ProxApply
    \/ StepEnd
    \/ Eval
    \/ DiagTerms
    \/ DiagGenes
    \/ DiagGenesRaise

Spec == Init /\ [][Next]_vars

(***************************************************************************)
(* Reference values the claims are stated with.                            *)
(***************************************************************************)
RMax(a, b) == IF RGt(a, b) THEN a ELSE b

\* sign(w)*max(|w|-alpha, 0)
SoftThreshold(w, alpha) == RMul(Num(ISign(w.n)), RMax(RSub(RAbs(w), alpha), Zero))

\* the threshold g[c] of the operator under call
Threshold(c) ==
    IF hOp.omega = None THEN hOp.alpha ELSE RMul(Val(hOp.omega)[c], hOp.alpha)

ColumnIsZero(W, c) == \A i \in RowsOf(W) : W[<<i, c>>] = Zero

(***************************************************************************)
(* Claims about ProxOperL1 (specification SpecL1).                         *)
(***************************************************************************)
\* C1: after ProxOperL1(alpha, I) with alpha > 0 is applied to W, every entry
\* where I is 1 equals its input, every entry where I is 0 equals
\* sign(w)*max(|w|-alpha, 0); without a mask every entry is
\* sign(w)*max(|w|-alpha, 0); with an all-ones mask the block is unchanged.
C1_MaskedSoftThreshold ==
    Len(hHist) >= 1 =>
        /\ \A p \in DOMAIN hIn :
              IF hOp.I # None /\ Val(hOp.I)[p] = 1
              THEN hHist[1][p] = hIn[p]
              ELSE hHist[1][p] = SoftThreshold(hIn[p], hOp.alpha)
        /\ (hOp.I # None /\ (\A p \in DOMAIN hIn : Val(hOp.I)[p] = 1)) => hHist[1] = hIn

\* C1 witness: a masked call in which an annotated entry at least alpha in
\* magnitude was kept and an unannotated entry was changed.
C1_Witness ==
    /\ Len(hHist) = 1
    /\ hOp.I # None
    /\ \E p \in DOMAIN hIn :
          /\ Val(hOp.I)[p] = 1
          /\ RGe(RAbs(hIn[p]), hOp.alpha)
          /\ hHist[1][p] = hIn[p]
    /\ \E q \in DOMAIN hIn :
          /\ Val(hOp.I)[q] = 0
          /\ hHist[1][q] # hIn[q]

\* C8 (as claimed): without a mask, ProxOperL1(alpha) applied to its own
\* output returns that output unchanged.
C8_AppliedTwiceEqualsOnce ==
    (Len(hHist) = 2 /\ hOp.I = None) => hHist[2] = hHist[1]

\* C8 (amended): without a mask, the second application leaves an entry of
\* the first output unchanged exactly when |w| <= alpha, and those are the
\* entries the first application has set to zero.
C8_IdempotentExactlyWhereZeroed ==
    (Len(hHist) = 2 /\ hOp.I = None) =>
        \A p \in DOMAIN hIn :
            /\ (hHist[2][p] = hHist[1][p]) <=> RLe(RAbs(hIn[p]), hOp.alpha)
            /\ RLe(RAbs(hIn[p]), hOp.alpha) => hHist[1][p] = Zero

\* C8 witness: two unmasked applications; one entry was zeroed by the first
\* and kept by the second, another was shrunk by both.
C8_Witness ==
    /\ Len(hHist) = 2
    /\ hOp.I = None
    /\ \E p \in DOMAIN hIn :
          hIn[p] # Zero /\ hHist[1][p] = Zero /\ hHist[2][p] = Zero
    /\ \E q \in DOMAIN hIn :
          hHist[1][q] # hIn[q] /\ hHist[2][q] # hHist[1][q]

(***************************************************************************)
(* Claims about ProxOperGroupL2 (specification SpecGroupL2).               *)
(***************************************************************************)
\* The column c of the first output is the input column scaled by (1 - g/n).
ScaledColumn(c, n, g) ==
    \A i \in Genes :
        hHist[1][<<i, c>>] = RMul(hIn[<<i, c>>], RSub(One, RDiv(g, n)))

\* C2: for every column c with norm n: if n <= g[c] the output column is
\* all-zero; if n > g[c] the output column is the input column scaled by
\* (1 - g[c]/n), and its norm is n - g[c].
C2_ShrinkOrZero ==
    Len(hHist) >= 1 =>
        \A c \in HCols :
            LET n == RSqrt(ColSq(hIn, c))
                g == Threshold(c)
            IN  IF RLe(n, g)
                THEN ColumnIsZero(hHist[1], c)
                ELSE /\ ScaledColumn(c, n, g)
                     /\ RSqrt(ColSq(hHist[1], c)) = RSub(n, g)

\* The same statement for the columns that are not (zero norm, zero
\* threshold): what the operator does everywhere else.
GroupL2_ShrinkOrZero_Elsewhere ==
    Len(hHist) >= 1 =>
        \A c \in HCols :
            LET n == RSqrt(ColSq(hIn, c))
                g == Threshold(c)
            IN  (n # Zero \/ g # Zero) =>
                IF RLe(n, g)
                THEN ColumnIsZero(hHist[1], c)
                ELSE /\ ScaledColumn(c, n, g)
                     /\ RSqrt(ColSq(hHist[1], c)) = RSub(n, g)

\* C3: a column of zero norm is returned all-zero, no non-finite entry is
\* produced, for every threshold (0 included, scalar or per group), and a
\* second application leaves it all-zero.
C3_ZeroColumnStaysZero ==
    \A k \in 1..Len(hHist) :
        \A c \in HCols :
            ColSq(hIn, c) = Zero =>
                /\ ColumnIsZero(hHist[k], c)
                /\ \A i \in Genes : IsFinite(hHist[k][<<i, c>>])

\* For a positive threshold the zero column does stay zero.
GroupL2_ZeroColumn_PositiveThreshold ==
    \A k \in 1..Len(hHist) :
        \A c \in HCols :
            (ColSq(hIn, c) = Zero /\ RGt(Threshold(c), Zero)) =>
                ColumnIsZero(hHist[k], c)


(***************************************************************************)
(* Claims about get_prox_operators (specification SpecRegistry).           *)
(***************************************************************************)
\* the group-L2 step of the registry: ProxOperGroupL2(lambda3), or nothing
GroupStep(l3, W) ==
    IF l3 = None THEN W
    ELSE ProxOperGroupL2_call(ProxOperGroupL2_init(Val(l3), None, TRUE), W)

L1Masked(l1, Imat, W) == ProxOperL1_call(ProxOperL1_init(Val(l1), Some(Imat), TRUE), W)

L1Plain(l2, W) == ProxOperL1_call(ProxOperL1_init(Val(l2), None, TRUE), W)

\* C5: the mapping holds 'annotated' exactly when lambda1 is set, 'sparse'
\* exactly when lambda2 is set, 'dense' always; 'annotated' applies masked
\* L1(lambda1, I) and then the group-L2 step, 'sparse' applies L1(lambda2) and
\* then the group-L2 step, 'dense' applies the group-L2 step alone, and the
\* group-L2 step is the identity when lambda3 is unset.
C5_RegistryComposition ==
    /\ hOp.ops # None =>
          /\ ("annotated" \in DOMAIN Val(hOp.ops)) <=> (hOp.lambda1 # None)
          /\ ("sparse" \in DOMAIN Val(hOp.ops)) <=> (hOp.lambda2 # None)
          /\ "dense" \in DOMAIN Val(hOp.ops)
          /\ DOMAIN Val(hOp.ops) \subseteq {"annotated", "sparse", "dense"}
    /\ Len(hHist) = 1 =>
          /\ hOp.key = "annotated" =>
                hHist[1] = GroupStep(hOp.lambda3, L1Masked(hOp.lambda1, hOp.I, hIn))
          /\ hOp.key = "sparse" =>
                hHist[1] = GroupStep(hOp.lambda3, L1Plain(hOp.lambda2, hIn))
          /\ hOp.key = "dense" => hHist[1] = GroupStep(hOp.lambda3, hIn)
          /\ (hOp.lambda3 = None /\ hOp.key = "dense") => hHist[1] = hIn
          /\ (hOp.lambda3 = None /\ hOp.key = "annotated") =>
                hHist[1] = L1Masked(hOp.lambda1, hOp.I, hIn)
          /\ (hOp.lambda3 = None /\ hOp.key = "sparse") =>
                hHist[1] = L1Plain(hOp.lambda2, hIn)

\* C5 witness: the 'sparse' operator was called with lambda2 and lambda3 set
\* on a matrix for which the order of the two steps matters, and lambda1 is
\* unset.
C5_Witness ==
    /\ Len(hHist) = 1
    /\ hOp.key = "sparse"
    /\ hOp.lambda1 = None /\ hOp.lambda2 # None /\ hOp.lambda3 # None
    /\ "annotated" \notin DOMAIN Val(hOp.ops)
    /\ hHist[1] # L1Plain(hOp.lambda2, GroupStep(hOp.lambda3, hIn))
    /\ hHist[1] # hIn


(***************************************************************************)
(* Claims about train_autoencoder (specification Spec).                    *)
(***************************************************************************)
\* the decoder holds a block whose own coefficient is absent
NoOperatorFor ==
    \/ ("annotated" \in DOMAIN weight_dict /\ lambda1 = None)
    \/ ("sparse" \in DOMAIN weight_dict /\ lambda2 = None)

\* C4: with a block whose term-type has no operator, train_autoencoder
\* raises before the first epoch: it never leaves the validation, no batch
\* is drawn, no optimizer step is taken, no proximal operator is applied and
\* no parameter is changed.
C4_FailFast ==
    /\ [](NoOperatorFor =>
            /\ pc \in {"start", "validate", "raised"}
            /\ pc = "raised" => err = "ValueError"
            /\ pc = "validate" => (ENABLED ValidateRaise /\ ~ENABLED ValidateOk)
            /\ epoch = 0 /\ step = 0 /\ trace = <<>> /\ todo = <<>>
            /\ n_deact_terms = None /\ share = None)
    /\ [][NoOperatorFor => weight_dict' = weight_dict]_vars

\* C4 witness: an annotated block, lambda1 absent, the other two set, and
\* the call has raised.
C4_Witness ==
    /\ pc = "raised" /\ err = "ValueError"
    /\ "annotated" \in DOMAIN weight_dict
    /\ lambda1 = None /\ lambda2 # None /\ lambda3 # None

\* C6: a configuration that passed the validation runs to completion: no
\* exception after the validation, and on return every epoch was executed.
C6_RunsToCompletion ==
    /\ pc = "raised" => err = "ValueError"
    /\ pc = "done" => epoch = num_epochs

\* genes with zero prior annotation weight (zero row sum of I)
ZeroPriorGenes == {i \in Genes : \A c \in HCols : I[<<i, c>>] = 0}

\* those of them whose row of the annotated block is entirely zero
DeactivatedGenes ==
    {i \in ZeroPriorGenes : \A c \in HCols : weight_dict["annotated"][<<i, c>>] = Zero}

\* the share line of the current epoch has been printed
ShareEmitted == pc = "epoch_loop" /\ share # None

\* C7: the share equals the number of genes whose row of the
\* annotated block is entirely zero, among the genes with zero prior
\* annotation weight, divided by the number of those genes.
C7_ShareOverGenes ==
    (ShareEmitted /\ ZeroPriorGenes # {}) =>
        /\ Val(share).d > 0
        /\ Val(share).n * Cardinality(ZeroPriorGenes)
              = Cardinality(DeactivatedGenes) * Val(share).d

\* entries of the annotated block that are not greater than zero in
\* magnitude: zero, or NaN
DeactivatedEntries ==
    {p \in DOMAIN weight_dict["annotated"] : weight_dict["annotated"][p].n = 0}

\* gene-term pairs without annotation
InactiveEntries == {p \in DOMAIN I : I[p] = 0}

\* What lines 175 and 229-230 emit instead: the number of entries of the
\* annotated block, over all gene-term pairs, that are not greater than zero
\* in magnitude, divided by the number of zero entries of I; inf or NaN
\* when I has no zero entry.
ShareOverEntries ==
    ShareEmitted =>
        IF InactiveEntries # {}
        THEN /\ Val(share).d > 0
             /\ Val(share).n * Cardinality(InactiveEntries)
                   = Cardinality(DeactivatedEntries) * Val(share).d
        ELSE Val(share).d = 0

\* A share was printed after a batch step, I has annotated and unannotated
\* pairs, and a zero entry of an annotated pair was counted.
ShareOverEntries_Witness ==
    /\ ShareEmitted
    /\ step > 0
    /\ \E p \in DOMAIN I : I[p] = 1 /\ weight_dict["annotated"][p] = Zero
    /\ \E q \in DOMAIN I : I[q] = 0 /\ weight_dict["annotated"][q] # Zero
    /\ Val(share) # Zero

\* C9 (as claimed): an absent coefficient only disables its own penalty, so
\* training never stops for want of a coefficient.
C9_AbsentOnlyDisables == err # "ValueError"

\* what one batch step must do to block k with the coefficients that are set
PenaltiesOf(k, W) ==
    IF k = "annotated" THEN GroupStep(lambda3, L1Masked(lambda1, I, W))
    ELSE IF k = "sparse" THEN GroupStep(lambda3, L1Plain(lambda2, W))
    ELSE GroupStep(lambda3, W)

\* C9 (amended): an absent lambda3 only disables the group-L2 step, for
\* every decoder; an absent lambda1 (lambda2) only disables its penalty for
\* a decoder without annotated (sparse) block, and with that block present
\* train_autoencoder raises ValueError at the validation; in every batch step
\* that runs, each block receives the penalties whose coefficients are set.
C9_AbsentCoefficient ==
    /\ [](/\ err = "ValueError" => NoOperatorFor
          /\ (NoOperatorFor /\ pc \notin {"start", "validate"}) => err = "ValueError")
    /\ [][(pc = "prox" /\ todo # <<>>) =>
            weight_dict' = [weight_dict EXCEPT
                              ![Head(todo)] = PenaltiesOf(Head(todo), @)]]_vars

\* C9 witness: lambda3 set alone on a dense-only decoder; a batch step has
\* applied the dense operator.
C9_Witness ==
    /\ lambda1 = None /\ lambda2 = None /\ lambda3 = Some(Num(1))
    /\ DOMAIN weight_dict = {"dense"}
    /\ pc = "step_loop" /\ step = 1
    /\ trace = <<"forward", "zero_grad", "backward", "optimizer_step", "dense">>

\* the events of one batch step, in the order claimed
StepEvents ==
    <<"forward", "zero_grad", "backward", "optimizer_step">>
    \o (IF "annotated" \in DOMAIN weight_dict THEN <<"annotated">> ELSE <<>>)
    \o (IF "sparse" \in DOMAIN weight_dict THEN <<"sparse">> ELSE <<>>)
    \o (IF "dense" \in DOMAIN weight_dict THEN <<"dense">> ELSE <<>>)

\* C10: in every batch step the events are: forward pass, clear gradients,
\* compute gradients, one optimizer update, then the operator of each active
\* block once, in the order annotated, sparse, dense; no operator precedes
\* the update and no update falls between two operators.
C10_StepOrder ==
    /\ pc = "forward" => trace = <<>>
    /\ pc = "zero_grad" => trace = SubSeq(StepEvents, 1, 1)
    /\ pc = "backward" => trace = SubSeq(StepEvents, 1, 2)
    /\ pc = "optimizer_step" => trace = SubSeq(StepEvents, 1, 3)
    /\ pc = "prox" =>
          /\ Len(trace) >= 4
          /\ trace = SubSeq(StepEvents, 1, Len(StepEvents) - Len(todo))
    /\ (pc = "step_loop" /\ step > 0) => trace = StepEvents

\* C10 witness: a completed batch step of a decoder with the three blocks.
C10_Witness ==
    /\ pc = "step_loop" /\ step > 0
    /\ DOMAIN weight_dict = {"annotated", "sparse", "dense"}
    /\ Len(trace) = 7

=============================================================================
